---- MODULE Spec2Model ----
(***************************************************************************)
(* MyFlightRadar24 -> Air Travel Log converter.                            *)
(*                                                                         *)
(* Python strings are modelled as sequences of one-character strings, so   *)
(* that slicing, splitting and the regular expression are computed on the  *)
(* characters.  The two reference stores are the module globals            *)
(* AIRPORT_DATA and AIRLINE_DATA; a store is [none |-> TRUE] while it is   *)
(* None and otherwise carries the dict in its field d.                     *)
(***************************************************************************)
EXTENDS Integers, Sequences, FiniteSets, TLC

VARIABLES
    pc,            \* position of the running process
    AIRPORT_DATA,  \* airports.AIRPORT_DATA
    AIRLINE_DATA,  \* airlines.AIRLINE_DATA
    airports_dat,  \* the file airports.dat: [exists, rows]
    airlines_dat,  \* the file airlines.dat: [exists, rows]
    infile,        \* the input CSV: [exists, rows]
    idx,           \* number of input rows the reader has handed to the loop
    atlrows,       \* convert's list atlrows
    outfile,       \* the output file: [opened, header, rows]
    status,        \* how the process ended: "running", "finished", "sys.exit(1)", "exception"
    arg,           \* argument of the call under study
    ret,           \* what that call returned (or Raised)
    last,          \* the last store call: what it was and the store before it
    ncalls         \* number of store calls made so far

vars == <<pc, AIRPORT_DATA, AIRLINE_DATA, airports_dat, airlines_dat, infile,
          idx, atlrows, outfile, status, arg, ret, last, ncalls>>

----------------------------------------------------------------------------
(* Bounds of the model.                                                    *)

MaxNameLen == 2     \* longest X, AAA or BBBB of a composite name
MaxFlightLen == 5   \* longest flight number drawn
MaxAirlineRows == 3 \* most rows of airlines.dat
MaxAirportRows == 3 \* most rows of airports.dat
MaxInRows == 2      \* most rows of the input table
MaxCalls == 3       \* most store calls of one run of the store model

----------------------------------------------------------------------------
(* Python str operations.                                                  *)

\* a call either returns a value or raises; sys.exit() is the third outcome
Ok(v) == [k |-> "ok", v |-> v]
Raised == [k |-> "raised"]
Exited == [k |-> "exit"]

\* an assignment x = v followed by the statements F that use x
With(v, F(_)) == F(v)

Letters == {"A", "B", "D", "L", "K", "X"}
Digits == {"0", "1", "2", "3", "4", "5", "6", "7", "8", "9"}

\* str.isalpha(): non-empty and every character alphabetic
isalpha(s) == Len(s) > 0 /\ \A i \in 1..Len(s) : s[i] \in Letters

\* s[:n]
Prefix(s, n) == SubSeq(s, 1, IF Len(s) < n THEN Len(s) ELSE n)

Max(S) == CHOOSE x \in S : \A y \in S : y <= x
Min(S) == CHOOSE x \in S : \A y \in S : x <= y

\* positions of the separator character in s
SepPositions(s, sep) == {i \in 1..Len(s) : s[i] = sep}

\* s.split(sep)[0]
SplitFirst(s, sep) ==
    IF SepPositions(s, sep) = {} THEN s
    ELSE SubSeq(s, 1, Min(SepPositions(s, sep)) - 1)

\* s.split(sep)[-1]
SplitLast(s, sep) ==
    IF SepPositions(s, sep) = {} THEN s
    ELSE SubSeq(s, Max(SepPositions(s, sep)) + 1, Len(s))

\* s.rsplit(sep, 1)[0]
RSplit1First(s, sep) ==
    IF SepPositions(s, sep) = {} THEN s
    ELSE SubSeq(s, 1, Max(SepPositions(s, sep)) - 1)

\* s.strip(): drop leading and trailing whitespace
IsSpace(c) == c \in {" ", "\n", "\t"}
strip(s) ==
    LET keep == {i \in 1..Len(s) : ~IsSpace(s[i])}
    IN  IF keep = {} THEN <<>> ELSE SubSeq(s, Min(keep), Max(keep))

----------------------------------------------------------------------------
(* CODE_REGEX = re.compile('.+\((.+)\)') and its search.                   *)

\* '.' matches any character except a line break
Dot(s, i, j) == \A k \in i..j : s[k] # "\n"

\* <<st, p, q>>: the match starts at st, '\(' is s[p], '\)' is s[q]
CodeMatches(s) ==
    {m \in (1..Len(s)) \X (1..Len(s)) \X (1..Len(s)) :
        /\ m[1] < m[2] /\ m[2] + 1 < m[3]
        /\ s[m[2]] = "(" /\ s[m[3]] = ")"
        /\ Dot(s, m[1], m[2] - 1)
        /\ Dot(s, m[2] + 1, m[3] - 1)}

\* the match the backtracking search finds among M: leftmost start, then
\* both '.+' greedy (the first one first); group(1) of it
FirstMatch(s, M) ==
    LET st == Min({m[1] : m \in M})
        p  == Max({m[2] : m \in {n \in M : n[1] = st}})
        q  == Max({m[3] : m \in {n \in M : n[1] = st /\ n[2] = p}})
    IN  SubSeq(s, p + 1, q - 1)

\* CODE_REGEX.search(s).group(1); raises when there is no match (None.group)
CODE_REGEX_group1(s) ==
    With(CodeMatches(s),
         LAMBDA M : IF M = {} THEN Raised ELSE Ok(FirstMatch(s, M)))

\* a slip: the last component of the split instead of the first
extract_code_last(name) ==
    With(CODE_REGEX_group1(name),
         LAMBDA g : IF g.k = "raised" THEN Raised
                    ELSE Ok(SplitLast(g.v, "/")))

extract_code(name) ==
    With(CODE_REGEX_group1(name),
         LAMBDA g : IF g.k = "raised" THEN Raised
                    ELSE Ok(SplitFirst(g.v, "/")))

extract_icao(name) ==
    With(CODE_REGEX_group1(name),
         LAMBDA g : IF g.k = "raised" THEN Raised
                    ELSE Ok(SplitLast(g.v, "/")))

\* extract_aircraft: name before the first '(', stripped; code by extract_code
extract_aircraft(aircraft) ==
    With(extract_code(aircraft),
         LAMBDA c : IF c.k = "raised" THEN Raised
                    ELSE Ok(<<strip(SplitFirst(aircraft, "(")), c.v>>))

----------------------------------------------------------------------------
(* The reference stores (airlines.py, airports.py).                        *)

NoneStore == [none |-> TRUE, d |-> <<>>]
Dict(d) == [none |-> FALSE, d |-> d]

\* d[key] = row
DictSet(d, key, row) ==
    [k \in DOMAIN d \cup {key} |-> IF k = key THEN row ELSE d[k]]

\* csv.DictReader: one dict per line; line is the identity of the dict object
RowObject(rows, i) == [line |-> i] @@ rows[i]

\* a slip: a key already present is kept (first row wins)
airlines_store_row_keep(d, row) ==
    LET d1 == IF row.iata # <<>> /\ row.iata \notin DOMAIN d
              THEN DictSet(d, row.iata, row) ELSE d
    IN  IF row.icao \in DOMAIN d1 THEN d1 ELSE DictSet(d1, row.icao, row)

\* a slip: the row is stored under its ICAO code only
airlines_store_row_icao(d, row) == DictSet(d, row.icao, row)

\* the body of the loop of airlines.read
airlines_store_row(d, row) ==
    LET d1 == IF row.iata # <<>> THEN DictSet(d, row.iata, row) ELSE d
    IN  DictSet(d1, row.icao, row)

RECURSIVE airlines_load(_, _)
airlines_load(rows, n) ==
    IF n = 0 THEN <<>>
    ELSE airlines_store_row(airlines_load(rows, n - 1), RowObject(rows, n))

\* the body of the loop of airports.read
airports_store_row(d, row) == DictSet(d, row.icao, row)

RECURSIVE airports_load(_, _)
airports_load(rows, n) ==
    IF n = 0 THEN <<>>
    ELSE airports_store_row(airports_load(rows, n - 1), RowObject(rows, n))

\* a slip: a missing file is read as an empty one
airlines_read_noexit(file) ==
    [store |-> Dict(airlines_load(file.rows, Len(file.rows))), res |-> Ok(<<>>)]

\* airlines.read: the global is an empty dict before the file is looked for
airlines_read(file) ==
    IF ~file.exists THEN [store |-> Dict(<<>>), res |-> Exited]
    ELSE [store |-> Dict(airlines_load(file.rows, Len(file.rows))),
          res |-> Ok(<<>>)]

airports_read(file) ==
    IF ~file.exists THEN [store |-> Dict(<<>>), res |-> Exited]
    ELSE [store |-> Dict(airports_load(file.rows, Len(file.rows))),
          res |-> Ok(<<>>)]

\* return STORE[code], or the KeyError
Subscript(d, code) == IF code \in DOMAIN d THEN Ok(d[code]) ELSE Raised

\* the rest of get after the load r: [store, result, whether read() ran]
get_after(r, code, didread) ==
    [store |-> r.store, read |-> didread,
     res |-> IF r.res.k = "exit" THEN Exited ELSE Subscript(r.store.d, code)]

Loaded(store) == [store |-> store, res |-> Ok(<<>>)]

\* a slip: get reads the file on every call
airlines_get_reload(store, file, code) ==
    get_after(airlines_read(file), code, TRUE)

\* airlines.get: [store after the call, result, whether read() was called]
airlines_get(store, file, code) ==
    get_after(IF store.none THEN airlines_read(file) ELSE Loaded(store),
              code, store.none)

airports_get(store, file, icao) ==
    get_after(IF store.none THEN airports_read(file) ELSE Loaded(store),
              icao, store.none)

----------------------------------------------------------------------------
(* extract_airline.                                                        *)

\* the reading of the rule as "a leading alphabetic run of exactly three"
LeadingAlphaRun(s) ==
    Max({n \in 0..Len(s) : \A i \in 1..n : s[i] \in Letters})

airline_code_run3(flightnum) ==
    IF LeadingAlphaRun(flightnum) = 3 THEN Prefix(flightnum, 3)
    ELSE Prefix(flightnum, 2)

\* a slip: always the two-character code
airline_code_two(flightnum) == Prefix(flightnum, 2)

airline_code(flightnum) ==
    IF isalpha(Prefix(flightnum, 3)) THEN Prefix(flightnum, 3)
    ELSE Prefix(flightnum, 2)

\* return airline_code, airline_info['name']
airline_pair(code, g) ==
    [store |-> g.store,
     res |-> IF g.res.k = "ok" THEN Ok(<<code, g.res.v.name>>) ELSE g.res]

\* [store after the call, result: <<airline_code, airline_info['name']>>]
extract_airline(store, file, flightnum) ==
    With(airline_code(flightnum),
         LAMBDA code : airline_pair(code, airlines_get(store, file, code)))

----------------------------------------------------------------------------
(* Files and values the specifications draw from.                          *)

SeqsUpTo(S, n) == UNION {[1..m -> S] : m \in 0..n}
NonEmptySeqsUpTo(S, n) == UNION {[1..m -> S] : m \in 1..n}

Missing == [exists |-> FALSE, rows |-> <<>>]
File(rows) == [exists |-> TRUE, rows |-> rows]

NoCall == [op |-> "none"]
NoArg == [kind |-> "none"]
NoOutput == [opened |-> FALSE, header |-> FALSE, rows |-> <<>>]

\* the variables a specification of one module leaves alone
MainIdle ==
    /\ infile = Missing /\ idx = 0 /\ atlrows = <<>> /\ outfile = NoOutput

----------------------------------------------------------------------------
(* StoreSpec: the two store modules used as a library: any sequence of     *)
(* read() and get() calls, on any small reference file.                    *)

CodeAA == <<"A", "A">>
CodeBB == <<"B", "B">>
CodeXX == <<"X", "X">>

AirlineRows ==
    {[name |-> <<"n">>, iata |-> i, icao |-> c] :
        i \in {<<>>, CodeAA, CodeBB}, c \in {CodeAA, CodeBB}}
AirportRows ==
    {[name |-> <<"n">>, icao |-> c, tz |-> 0, latitude |-> 0, longitude |-> 0] :
        c \in {CodeAA, CodeBB}}
StoreKeys == {CodeAA, CodeBB, CodeXX}

StoreInit ==
    /\ pc = "lib"
    /\ AIRPORT_DATA = NoneStore
    /\ AIRLINE_DATA = NoneStore
    /\ \/ /\ airlines_dat \in {Missing} \cup
                 {File(r) : r \in SeqsUpTo(AirlineRows, MaxAirlineRows)}
          /\ airports_dat = Missing
       \/ /\ airlines_dat = Missing
          /\ airports_dat \in {Missing} \cup
                 {File(r) : r \in SeqsUpTo(AirportRows, MaxAirportRows)}
    /\ MainIdle
    /\ status = "running"
    /\ arg = NoArg
    /\ ret = Raised
    /\ last = NoCall
    /\ ncalls = 0

StoreIdle == UNCHANGED <<airports_dat, airlines_dat, infile, idx, atlrows,
                         outfile, arg>>

\* sys.exit(1) ends the process; an exception is left to the caller
AfterCall(res) ==
    /\ ret' = res
    /\ status' = IF res.k = "exit" THEN "sys.exit(1)" ELSE status
    /\ pc' = IF res.k = "exit" THEN "exited" ELSE pc
    /\ ncalls' = ncalls + 1

AirlinesRead ==
    /\ pc = "lib" /\ ncalls < MaxCalls
    /\ LET r == airlines_read(airlines_dat)
       IN  /\ AIRLINE_DATA' = r.store
           /\ last' = [op |-> "read", mod |-> "airlines", read |-> TRUE,
                       before |-> AIRLINE_DATA]
           /\ AfterCall(r.res)
    /\ UNCHANGED AIRPORT_DATA
    /\ StoreIdle

AirlinesGet ==
    /\ pc = "lib" /\ ncalls < MaxCalls
    /\ \E code \in StoreKeys :
         LET g == airlines_get(AIRLINE_DATA, airlines_dat, code)
         IN  /\ AIRLINE_DATA' = g.store
             /\ last' = [op |-> "get", mod |-> "airlines", read |-> g.read,
                         before |-> AIRLINE_DATA]
             /\ AfterCall(g.res)
    /\ UNCHANGED AIRPORT_DATA
    /\ StoreIdle

AirportsRead ==
    /\ pc = "lib" /\ ncalls < MaxCalls
    /\ LET r == airports_read(airports_dat)
       IN  /\ AIRPORT_DATA' = r.store
           /\ last' = [op |-> "read", mod |-> "airports", read |-> TRUE,
                       before |-> AIRPORT_DATA]
           /\ AfterCall(r.res)
    /\ UNCHANGED AIRLINE_DATA
    /\ StoreIdle

AirportsGet ==
    /\ pc = "lib" /\ ncalls < MaxCalls
    /\ \E icao \in StoreKeys :
         LET g == airports_get(AIRPORT_DATA, airports_dat, icao)
         IN  /\ AIRPORT_DATA' = g.store
             /\ last' = [op |-> "get", mod |-> "airports", read |-> g.read,
                         before |-> AIRPORT_DATA]
             /\ AfterCall(g.res)
    /\ UNCHANGED AIRLINE_DATA
    /\ StoreIdle

StoreNext == AirlinesRead \/ AirlinesGet \/ AirportsRead \/ AirportsGet

StoreSpec == StoreInit /\ [][StoreNext]_vars

----------------------------------------------------------------------------
(* Properties of the stores.                                               *)

AirlinesLoaded == pc = "lib" /\ ~AIRLINE_DATA.none /\ airlines_dat.exists
AirportsLoaded == pc = "lib" /\ ~AIRPORT_DATA.none /\ airports_dat.exists

\* the lines of airlines.dat that read() stores under key
AirlineLines(rows, key) ==
    {i \in 1..Len(rows) :
        rows[i].icao = key \/ (rows[i].iata # <<>> /\ rows[i].iata = key)}
AirportLines(rows, key) == {i \in 1..Len(rows) : rows[i].icao = key}

\* no line after i is stored under the iata or the icao of line i
NoLaterLine(rows, i) ==
    \A j \in AirlineLines(rows, rows[i].iata) \cup
             AirlineLines(rows, rows[i].icao) : j <= i

GetAirline(code) == airlines_get(AIRLINE_DATA, airlines_dat, code).res

\* C1 as stated: after read() of a file holding a row with non-empty iata a
\* and icao b, get(a) and get(b) both succeed and return that very row,
\* whatever the other rows of the file are.
C1_BothKeysReturnTheRow ==
    AirlinesLoaded =>
        \A i \in 1..Len(airlines_dat.rows) :
            LET row == airlines_dat.rows[i]
            IN  row.iata # <<>> =>
                  /\ GetAirline(row.iata).k = "ok"
                  /\ GetAirline(row.icao).k = "ok"
                  /\ GetAirline(row.iata).v = GetAirline(row.icao).v
                  /\ GetAirline(row.iata).v = RowObject(airlines_dat.rows, i)

\* C1 amended: get(a) and get(b) both succeed whatever the other rows are,
\* and both return that very row (the identical record) when no later row of
\* the file has an icao, or a non-empty iata, equal to a or to b.
C1_BothKeysReturnTheRowUnlessOverwritten ==
    AirlinesLoaded =>
        \A i \in 1..Len(airlines_dat.rows) :
            LET row == airlines_dat.rows[i]
            IN  row.iata # <<>> =>
                  /\ GetAirline(row.iata).k = "ok"
                  /\ GetAirline(row.icao).k = "ok"
                  /\ NoLaterLine(airlines_dat.rows, i) =>
                       /\ GetAirline(row.iata).v = GetAirline(row.icao).v
                       /\ GetAirline(row.iata).v =
                              RowObject(airlines_dat.rows, i)

\* a get() returned a two-keyed row that is neither the first nor the only
\* row stored under its iata
C1_Witness ==
    /\ AirlinesLoaded
    /\ last.op = "get" /\ last.mod = "airlines" /\ ret.k = "ok"
    /\ \E i \in 2..Len(airlines_dat.rows) :
         LET row == airlines_dat.rows[i]
         IN  /\ row.iata # <<>> /\ row.iata # row.icao
             /\ NoLaterLine(airlines_dat.rows, i)
             /\ AirlineLines(airlines_dat.rows, row.iata) # {i}
             /\ ret.v = RowObject(airlines_dat.rows, i)
             /\ GetAirline(row.icao).v = ret.v

\* C9: after read(), a store holds exactly the keys some row was stored
\* under, one record per key, and that record is the last row in file order
\* stored under the key (airports: by icao; airlines: by icao or non-empty
\* iata).
C9_LastRowWins ==
    /\ AirlinesLoaded =>
         /\ DOMAIN AIRLINE_DATA.d =
              {key \in {airlines_dat.rows[i].icao :
                            i \in 1..Len(airlines_dat.rows)} \cup
                       {airlines_dat.rows[i].iata :
                            i \in 1..Len(airlines_dat.rows)} :
                  AirlineLines(airlines_dat.rows, key) # {}}
         /\ \A key \in DOMAIN AIRLINE_DATA.d :
              AIRLINE_DATA.d[key] =
                  RowObject(airlines_dat.rows,
                            Max(AirlineLines(airlines_dat.rows, key)))
    /\ AirportsLoaded =>
         /\ DOMAIN AIRPORT_DATA.d =
              {airports_dat.rows[i].icao : i \in 1..Len(airports_dat.rows)}
         /\ \A key \in DOMAIN AIRPORT_DATA.d :
              AIRPORT_DATA.d[key] =
                  RowObject(airports_dat.rows,
                            Max(AirportLines(airports_dat.rows, key)))

\* a later row's icao has replaced an earlier row's iata entry
C9_Witness ==
    /\ AirlinesLoaded
    /\ \E i, j \in 1..Len(airlines_dat.rows) :
         /\ i < j
         /\ airlines_dat.rows[i].iata # <<>>
         /\ airlines_dat.rows[i].iata = airlines_dat.rows[j].icao
         /\ airlines_dat.rows[i].icao # airlines_dat.rows[j].icao
         /\ AIRLINE_DATA.d[airlines_dat.rows[i].iata].line = j
         /\ AIRLINE_DATA.d[airlines_dat.rows[i].icao].line = i

StoreOf(mod) == IF mod = "airlines" THEN AIRLINE_DATA ELSE AIRPORT_DATA

\* C10: a get() calls read() exactly when the store is still None, and a
\* get() on a loaded store leaves the store as it was, whether the key is
\* found or not.
C10_GetLoadsOnlyOnce ==
    last.op = "get" =>
        /\ last.read <=> last.before.none
        /\ ~last.before.none => StoreOf(last.mod) = last.before

\* a third call, a get() of an unknown key, on a store loaded by an earlier
\* call
C10_Witness ==
    /\ ncalls = 3 /\ last.op = "get" /\ ~last.read /\ ret.k = "raised"
    /\ ~last.before.none /\ last.before.d # <<>>
    /\ StoreOf(last.mod) = last.before

----------------------------------------------------------------------------
(* ExtractSpec: one call of a field extractor on a drawn argument.         *)

Composite(X, A, B) == X \o <<" ", "(">> \o A \o <<"/">> \o B \o <<")">>
Solo(X, B) == X \o <<" ", "(">> \o B \o <<")">>

NameChars == {"X", "(", ")", "/", "\n"}
IataChars == {"A", "\n"}
IcaoChars == {"B", "\n"}
FlightChars == {"A", "B", "1"}

NameArgs ==
    {[kind |-> "composite", X |-> x, A |-> a, B |-> b, s |-> Composite(x, a, b)] :
        x \in NonEmptySeqsUpTo(NameChars, MaxNameLen),
        a \in NonEmptySeqsUpTo(IataChars, MaxNameLen),
        b \in NonEmptySeqsUpTo(IcaoChars, MaxNameLen)}
    \cup
    {[kind |-> "solo", X |-> x, A |-> b, B |-> b, s |-> Solo(x, b)] :
        x \in NonEmptySeqsUpTo(NameChars, MaxNameLen),
        b \in NonEmptySeqsUpTo(IcaoChars, MaxNameLen)}

FlightArgs ==
    {[kind |-> "flight", s |-> f] : f \in SeqsUpTo(FlightChars, MaxFlightLen)}

RefAirlines ==
    File(<< [name |-> <<"D">>, iata |-> <<"A", "B">>, icao |-> <<"A", "B", "A">>],
            [name |-> <<"K">>, iata |-> <<"A", "1">>, icao |-> <<"A", "A", "B">>],
            [name |-> <<"X">>, iata |-> <<>>, icao |-> <<"B", "B", "B">>],
            [name |-> <<"L">>, iata |-> <<"B", "A">>, icao |-> <<"B", "A", "B">>] >>)

ExtractInit ==
    /\ pc = "call"
    /\ arg \in NameArgs \cup FlightArgs
    /\ airlines_dat \in IF arg.kind = "flight" THEN {RefAirlines, Missing}
                        ELSE {RefAirlines}
    /\ AIRLINE_DATA \in IF arg.kind = "flight"
                        THEN {NoneStore, airlines_read(RefAirlines).store}
                        ELSE {NoneStore}
    /\ AIRPORT_DATA = NoneStore
    /\ airports_dat = Missing
    /\ MainIdle
    /\ status = "running"
    /\ ret = Raised
    /\ last = NoCall
    /\ ncalls = 0

ExtractIdle == UNCHANGED <<AIRPORT_DATA, airports_dat, airlines_dat, infile,
                           idx, atlrows, outfile, arg, ncalls>>

Returned(op, res) ==
    /\ ret' = res
    /\ last' = [op |-> op]
    /\ status' = IF res.k = "exit" THEN "sys.exit(1)" ELSE status
    /\ pc' = IF res.k = "exit" THEN "exited" ELSE "returned"

CallExtractCode ==
    /\ pc = "call" /\ arg.kind \in {"composite", "solo"}
    /\ Returned("extract_code", extract_code(arg.s))
    /\ UNCHANGED AIRLINE_DATA
    /\ ExtractIdle

CallExtractIcao ==
    /\ pc = "call" /\ arg.kind \in {"composite", "solo"}
    /\ Returned("extract_icao", extract_icao(arg.s))
    /\ UNCHANGED AIRLINE_DATA
    /\ ExtractIdle

CallExtractAircraft ==
    /\ pc = "call" /\ arg.kind \in {"composite", "solo"}
    /\ Returned("extract_aircraft", extract_aircraft(arg.s))
    /\ UNCHANGED AIRLINE_DATA
    /\ ExtractIdle

CallExtractAirline ==
    /\ pc = "call" /\ arg.kind = "flight"
    /\ LET r == extract_airline(AIRLINE_DATA, airlines_dat, arg.s)
       IN  /\ AIRLINE_DATA' = r.store
           /\ Returned("extract_airline", r.res)
    /\ ExtractIdle

ExtractNext ==
    CallExtractCode \/ CallExtractIcao \/ CallExtractAircraft
        \/ CallExtractAirline

ExtractSpec == ExtractInit /\ [][ExtractNext]_vars

----------------------------------------------------------------------------
(* Properties of the extractors.                                           *)

Has(s, c) == \E i \in 1..Len(s) : s[i] = c

C5_AirlineCodeRunOfThree ==
    pc \in {"returned", "exited"} /\ last.op = "extract_airline" =>
        LET code == airline_code_run3(arg.s)
        IN  /\ ret.k = "ok" =>
                 /\ ret.v[1] = code
                 /\ code \in DOMAIN AIRLINE_DATA.d
                 /\ ret.v[2] = AIRLINE_DATA.d[code].name
            /\ code \notin DOMAIN AIRLINE_DATA.d => ret.k # "ok"

\* C5 amended: the airline code is the leading 3 characters when the leading
\* alphabetic run has 3 letters or more, else the leading 2 characters; name
\* and failure as stated.
C5_AirlineCodeRunOfThreeOrMore ==
    pc \in {"returned", "exited"} /\ last.op = "extract_airline" =>
        LET code == IF LeadingAlphaRun(arg.s) >= 3 THEN Prefix(arg.s, 3)
                    ELSE Prefix(arg.s, 2)
        IN  /\ ret.k = "ok" =>
                 /\ ret.v[1] = code
                 /\ code \in DOMAIN AIRLINE_DATA.d
                 /\ ret.v[2] = AIRLINE_DATA.d[code].name
            /\ code \notin DOMAIN AIRLINE_DATA.d => ret.k # "ok"

\* a flight number with four leading letters has been resolved by its first
\* three
C5_Witness ==
    /\ pc = "returned" /\ last.op = "extract_airline"
    /\ LeadingAlphaRun(arg.s) = 4 /\ Len(arg.s) = 5
    /\ ret.k = "ok" /\ ret.v = <<Prefix(arg.s, 3), <<"D">> >>

----------------------------------------------------------------------------
(* datetime: strptime, timedelta, astimezone and strftime of format_time.  *)
(* A timezone is its UTC offset in whole hours.                            *)

RECURSIVE Split(_, _)
\* s.split(sep): all the components
Split(s, sep) ==
    IF SepPositions(s, sep) = {} THEN <<s>>
    ELSE <<SubSeq(s, 1, Min(SepPositions(s, sep)) - 1)>> \o
         Split(SubSeq(s, Min(SepPositions(s, sep)) + 1, Len(s)), sep)

DigitVal(c) == CHOOSE d \in 0..9 : <<"0", "1", "2", "3", "4", "5", "6", "7", "8", "9">>[d + 1] = c
DigitChar(d) == <<"0", "1", "2", "3", "4", "5", "6", "7", "8", "9">>[d + 1]

IsNumber(s) == Len(s) > 0 /\ \A i \in 1..Len(s) : s[i] \in Digits

RECURSIVE ParseInt(_)
\* int(s) of a string of decimal digits
ParseInt(s) ==
    IF Len(s) = 0 THEN 0
    ELSE 10 * ParseInt(SubSeq(s, 1, Len(s) - 1)) + DigitVal(s[Len(s)])

RECURSIVE FormatInt(_, _)
\* n as decimal digits, zero-padded to the width (%Y: 4, %m %d %H %M: 2)
FormatInt(n, width) ==
    IF width = 0 THEN <<>>
    ELSE FormatInt(n \div 10, width - 1) \o <<DigitChar(n % 10)>>

IsLeap(y) == y % 4 = 0 /\ (y % 100 # 0 \/ y % 400 = 0)
DaysInMonth(y, m) ==
    IF m = 2 THEN (IF IsLeap(y) THEN 29 ELSE 28)
    ELSE IF m \in {4, 6, 9, 11} THEN 30 ELSE 31

DaysBeforeYear(y) ==
    (y - 1) * 365 + (y - 1) \div 4 - (y - 1) \div 100 + (y - 1) \div 400

RECURSIVE DaysBeforeMonth(_, _)
DaysBeforeMonth(y, m) ==
    IF m = 1 THEN 0 ELSE DaysBeforeMonth(y, m - 1) + DaysInMonth(y, m - 1)

\* date.toordinal and date.fromordinal
ToOrdinal(d) == DaysBeforeYear(d.Y) + DaysBeforeMonth(d.Y, d.M) + d.D

YearOfOrdinal(n) ==
    CHOOSE y \in (n \div 366)..(n \div 365 + 1) :
        DaysBeforeYear(y) < n /\ n <= DaysBeforeYear(y + 1)

\* the month of day number n of year y
MonthOfDay(y, n) ==
    CHOOSE m \in 1..12 :
        DaysBeforeMonth(y, m) < n /\ n <= DaysBeforeMonth(y, m + 1)

FromOrdinal(n) ==
    With(YearOfOrdinal(n), LAMBDA y :
    With(MonthOfDay(y, n - DaysBeforeYear(y)), LAMBDA m :
        [Y |-> y, M |-> m,
         D |-> n - DaysBeforeYear(y) - DaysBeforeMonth(y, m)]))

\* a strptime field of one or two digits
Field2(s) == IsNumber(s) /\ Len(s) <= 2

\* the datetime of the parsed fields, or the ValueError; %y: 69-99 are
\* 1969-1999, 00-68 are 2000-2068
datetime_of(y, m, dd, hh, mm, ss) ==
    IF /\ m \in 1..12 /\ dd >= 1 /\ dd <= DaysInMonth(y, m)
       /\ hh <= 23 /\ mm <= 59 /\ ss <= 61
    THEN Ok([Y |-> y, M |-> m, D |-> dd, h |-> hh, m |-> mm, s |-> ss])
    ELSE Raised

Year2(yy) == IF yy <= 68 THEN 2000 + yy ELSE 1900 + yy

\* datetime.strptime(f'{date} {time}', '%m/%d/%y %H:%M:%S')
strptime(date, time) ==
    With(Split(date, "/"), LAMBDA d :
    With(Split(time, ":"), LAMBDA t :
        IF /\ Len(d) = 3 /\ Len(t) = 3
           /\ \A i \in 1..3 : Field2(d[i]) /\ Field2(t[i])
        THEN datetime_of(Year2(ParseInt(d[3])), ParseInt(d[1]),
                         ParseInt(d[2]), ParseInt(t[1]), ParseInt(t[2]),
                         ParseInt(t[3]))
        ELSE Raised))

\* datetime.timedelta(hours, minutes, seconds) of duration.split(':'), in
\* seconds
timedelta(duration) ==
    With(Split(duration, ":"), LAMBDA t :
        IF Len(t) >= 3 /\ \A i \in 1..3 : IsNumber(t[i])
        THEN Ok(ParseInt(t[1]) * 3600 + ParseInt(t[2]) * 60 + ParseInt(t[3]))
        ELSE Raised)

\* the datetime secs seconds after midnight of day number ord
DateTimeAt(ord, secs) ==
    With(FromOrdinal(ord + secs \div 86400), LAMBDA day :
    With(secs % 86400, LAMBDA rest :
        [Y |-> day.Y, M |-> day.M, D |-> day.D, h |-> rest \div 3600,
         m |-> (rest % 3600) \div 60, s |-> rest % 60]))

\* (dt + delta).astimezone(tz): dt is wall time at UTC offset from_tz
AddAndConvert(dt, delta, from_tz, to_tz) ==
    DateTimeAt(ToOrdinal(dt),
               dt.h * 3600 + dt.m * 60 + dt.s + delta
                   + (to_tz - from_tz) * 3600)

\* strftime('%Y-%m-%d') and strftime('%H:%M')
FormatDate(dt) ==
    FormatInt(dt.Y, 4) \o <<"-">> \o FormatInt(dt.M, 2) \o <<"-">> \o
    FormatInt(dt.D, 2)
FormatHM(dt) == FormatInt(dt.h, 2) \o <<":">> \o FormatInt(dt.m, 2)

\* the four lines both format_time and calculate_distance begin with:
\* [store after the calls, result: <<depart_info, arrive_info>>]
airport_infos(store, file, mfrrow) ==
    With(extract_icao(mfrrow.From), LAMBDA dep :
    IF dep.k # "ok" THEN [store |-> store, res |-> Raised] ELSE
    With(airports_get(store, file, dep.v), LAMBDA g1 :
    IF g1.res.k # "ok" THEN [store |-> g1.store, res |-> g1.res] ELSE
    With(extract_icao(mfrrow.To), LAMBDA arr :
    IF arr.k # "ok" THEN [store |-> g1.store, res |-> Raised] ELSE
    With(airports_get(g1.store, file, arr.v), LAMBDA g2 :
    IF g2.res.k # "ok" THEN [store |-> g2.store, res |-> g2.res] ELSE
    [store |-> g2.store, res |-> Ok(<<g1.res.v, g2.res.v>>)]))))

\* deptime_atl
departure_stamp(deptime) ==
    FormatDate(deptime) \o <<" ">> \o FormatHM(deptime)

\* a "fix": the computed arrival time of day instead of the row's own
arrival_stamp_computed(arrtime, arr_time) ==
    FormatDate(arrtime) \o <<" ">> \o FormatHM(arrtime)

\* arrtime_atl
arrival_stamp(arrtime, arr_time) ==
    FormatDate(arrtime) \o <<" ">> \o RSplit1First(arr_time, ":")

\* the stamps, given the two airport records
format_stamps(mfrrow, depart_info, arrive_info) ==
    With(strptime(mfrrow.Date, mfrrow.DepTime), LAMBDA deptime :
    IF deptime.k # "ok" THEN Raised ELSE
    With(timedelta(mfrrow.Duration), LAMBDA duration :
    IF duration.k # "ok" THEN Raised ELSE
    Ok(<<departure_stamp(deptime.v),
         arrival_stamp(AddAndConvert(deptime.v, duration.v, depart_info.tz,
                                     arrive_info.tz),
                       mfrrow.ArrTime)>>)))

\* format_time: [store after the call, result: <<deptime_atl, arrtime_atl>>]
format_time(store, file, mfrrow) ==
    With(airport_infos(store, file, mfrrow), LAMBDA a :
        [store |-> a.store,
         res |-> IF a.res.k # "ok" THEN a.res
                 ELSE format_stamps(mfrrow, a.res.v[1], a.res.v[2])])

----------------------------------------------------------------------------
(* TimeSpec: one call of format_time on a drawn row.                       *)

Dates ==
    {<<"0", "1", "/", "1", "5", "/", "2", "4">>,
     <<"1", "2", "/", "3", "1", "/", "9", "9">>,
     <<"2", "/", "2", "8", "/", "2", "3">>,
     <<"0", "2", "/", "2", "9", "/", "2", "4">>,
     <<"1", "/", "1", "/", "6", "9">>,
     <<"1", "2", "/", "3", "1", "/", "6", "8">>,
     <<"0", "2", "/", "3", "0", "/", "2", "3">>}
DepTimes ==
    {<<"0", "8", ":", "0", "0", ":", "0", "0">>,
     <<"2", "3", ":", "5", "9", ":", "3", "0">>,
     <<"0", ":", "5", ":", "0">>}
Durations ==
    {<<"2", ":", "3", "0", ":", "0", "0">>,
     <<"0", ":", "0", "0", ":", "3", "0">>,
     <<"2", "6", ":", "0", "0", ":", "0", "0">>,
     <<"0", ":", "0", "0", ":", "0", "0">>}
ArrTimes ==
    {<<"1", "0", ":", "3", "0", ":", "0", "0">>,
     <<"1", ":", "5", ":", "5", "9">>,
     <<"0", "7", ":", "4", "5">>,
     <<"1", "0", "3", "0">>}

CodeHNL == <<"K", "A">>
CodeLHR == <<"K", "B">>
CodeNRT == <<"K", "D">>

RefAirports ==
    File(<< [name |-> <<"A">>, icao |-> CodeHNL, tz |-> -10,
             latitude |-> 21, longitude |-> -157],
            [name |-> <<"B">>, icao |-> CodeLHR, tz |-> 0,
             latitude |-> 51, longitude |-> 0],
            [name |-> <<"D">>, icao |-> CodeNRT, tz |-> 9,
             latitude |-> 35, longitude |-> 140] >>)

AirportNames ==
    {Composite(<<"X">>, <<"A">>, CodeHNL), Solo(<<"X">>, CodeLHR),
     Composite(<<"X", "/", "X">>, <<"D">>, CodeNRT)}

TimeInit ==
    /\ pc = "call"
    /\ arg \in [kind : {"row"}, From : AirportNames, To : AirportNames,
                Date : Dates, DepTime : DepTimes, Duration : Durations,
                ArrTime : ArrTimes]
    /\ airports_dat = RefAirports
    /\ AIRPORT_DATA = airports_read(RefAirports).store
    /\ AIRLINE_DATA = NoneStore
    /\ airlines_dat = Missing
    /\ MainIdle
    /\ status = "running"
    /\ ret = Raised
    /\ last = NoCall
    /\ ncalls = 0

CallFormatTime ==
    /\ pc = "call" /\ arg.kind = "row"
    /\ LET r == format_time(AIRPORT_DATA, airports_dat, arg)
       IN  /\ AIRPORT_DATA' = r.store
           /\ Returned("format_time", r.res)
    /\ UNCHANGED <<AIRLINE_DATA, airports_dat, airlines_dat, infile, idx,
                   atlrows, outfile, arg, ncalls>>

TimeNext == CallFormatTime

TimeSpec == TimeInit /\ [][TimeNext]_vars

----------------------------------------------------------------------------
(* Properties of format_time.                                              *)

Tz(name) == AIRPORT_DATA.d[extract_icao(name).v].tz

\* a one- or two-digit field written with two digits
Pad2(f) == IF Len(f) = 1 THEN <<"0">> \o f ELSE f

\* the calendar day after and the one before
NextDay(d) ==
    IF d.D < DaysInMonth(d.Y, d.M) THEN [d EXCEPT !.D = d.D + 1]
    ELSE IF d.M < 12 THEN [Y |-> d.Y, M |-> d.M + 1, D |-> 1]
    ELSE [Y |-> d.Y + 1, M |-> 1, D |-> 1]
PrevDay(d) ==
    IF d.D > 1 THEN [d EXCEPT !.D = d.D - 1]
    ELSE IF d.M > 1
         THEN [Y |-> d.Y, M |-> d.M - 1, D |-> DaysInMonth(d.Y, d.M - 1)]
    ELSE [Y |-> d.Y - 1, M |-> 12, D |-> 31]

RECURSIVE ShiftDay(_, _)
ShiftDay(d, n) ==
    IF n = 0 THEN d
    ELSE IF n > 0 THEN ShiftDay(NextDay(d), n - 1)
    ELSE ShiftDay(PrevDay(d), n + 1)

\* the row's departure date and the seconds from its midnight to the
\* arrival, on the destination's clock
RowDepDate(row) ==
    With(Split(row.Date, "/"), LAMBDA d :
        [Y |-> Year2(ParseInt(d[3])), M |-> ParseInt(d[1]),
         D |-> ParseInt(d[2])])
RowArrSecs(row) ==
    With(Split(row.DepTime, ":"), LAMBDA t :
    With(Split(row.Duration, ":"), LAMBDA u :
        (ParseInt(t[1]) + ParseInt(u[1]) + Tz(row.To) - Tz(row.From)) * 3600
        + (ParseInt(t[2]) + ParseInt(u[2])) * 60
        + ParseInt(t[3]) + ParseInt(u[3])))

\* the departure stamp spelled from the row's own fields
RowDepStamp(row) ==
    With(Split(row.Date, "/"), LAMBDA d :
    With(Split(row.DepTime, ":"), LAMBDA t :
        (IF ParseInt(d[3]) <= 68 THEN <<"2", "0">> ELSE <<"1", "9">>)
        \o Pad2(d[3]) \o <<"-">> \o Pad2(d[1]) \o <<"-">> \o Pad2(d[2])
        \o <<" ">> \o Pad2(t[1]) \o <<":">> \o Pad2(t[2])))

\* p is a with its final ':SS' component removed (a itself when it has none)
WithoutFinalField(a, p) ==
    \E n \in 0..Len(a) :
        /\ p = SubSeq(a, 1, n)
        /\ \/ n = Len(a) /\ ~Has(a, ":")
           \/ /\ n < Len(a) /\ a[n + 1] = ":"
              /\ ~Has(SubSeq(a, n + 2, Len(a)), ":")

\* C6: the arrival stamp is the date of (departure + duration) on the
\* destination's clock, a space, and the row's own 'Arr time' without its
\* final ':SS'; the departure stamp is the row's departure date and time as
\* YYYY-MM-DD HH:MM.  The call returns exactly when the date exists.
C6_ArrivalStampKeepsInputTime ==
    pc = "returned" /\ last.op = "format_time" =>
        /\ ret.k = "ok" <=>
               RowDepDate(arg).D <= DaysInMonth(RowDepDate(arg).Y,
                                                RowDepDate(arg).M)
        /\ ret.k = "ok" =>
             /\ ret.v[1] = RowDepStamp(arg)
             /\ Len(ret.v[2]) >= 11
             /\ SubSeq(ret.v[2], 1, 11) =
                    FormatDate(ShiftDay(RowDepDate(arg),
                                        RowArrSecs(arg) \div 86400))
                    \o <<" ">>
             /\ WithoutFinalField(arg.ArrTime,
                                  SubSeq(ret.v[2], 12, Len(ret.v[2])))

\* a flight between two timezones that lands on another date than it left,
\* at a computed time of day that is not the row's 'Arr time'
C6_Witness ==
    /\ pc = "returned" /\ last.op = "format_time" /\ ret.k = "ok"
    /\ Tz(arg.From) # Tz(arg.To)
    /\ SubSeq(ret.v[2], 1, 10) # SubSeq(ret.v[1], 1, 10)
    /\ arg.ArrTime = <<"1", "0", ":", "3", "0", ":", "0", "0">>
    /\ SubSeq(ret.v[2], 12, Len(ret.v[2])) = <<"1", "0", ":", "3", "0">>
    /\ RowArrSecs(arg) % 86400 # 10 * 3600 + 30 * 60


----------------------------------------------------------------------------
(* The row transformer: the body of the loop of convert.                   *)

\* the values of the two enumerations are kept as whole strings
format_seat_type(seattype) ==
    IF seattype = <<"0">> THEN Ok(<<"Unknown", "U">>)
    ELSE IF seattype = <<"1">> THEN Ok(<<"Window", "W">>)
    ELSE IF seattype = <<"2">> THEN Ok(<<"Middle", "M">>)
    ELSE IF seattype = <<"3">> THEN Ok(<<"Aisle", "A">>)
    ELSE Raised

format_seat_class(seatclass) ==
    IF seatclass = <<"1">> THEN Ok(<<"Economy", "Y">>)
    ELSE IF seatclass = <<"2">> THEN Ok(<<"Business", "J">>)
    ELSE IF seatclass = <<"3">> THEN Ok(<<"First", "F">>)
    ELSE IF seatclass = <<"4">> THEN Ok(<<"Premium Economy", "W">>)
    ELSE IF seatclass = <<"5">> THEN Ok(<<"Private", "P">>)
    ELSE Raised

\* great_circle_calculator's distance_between_points is left uninterpreted:
\* the term names the two (longitude, latitude) points
distance_between_points(p1, p2) == [km_from |-> p1, km_to |-> p2]

\* calculate_distance: [store after the call, result]
calculate_distance(store, file, mfrrow) ==
    With(airport_infos(store, file, mfrrow), LAMBDA a :
        [store |-> a.store,
         res |-> IF a.res.k # "ok" THEN a.res
                 ELSE Ok(distance_between_points(
                          <<a.res.v[1].longitude, a.res.v[1].latitude>>,
                          <<a.res.v[2].longitude, a.res.v[2].latitude>>))])

\* a slip: the actual arrival is copied from the scheduled departure
atl_times_slip(stamps, duration) ==
    With(RSplit1First(duration, ":"), LAMBDA sched :
        [STD |-> stamps[1], STA |-> stamps[2], ScheduledDuration |-> sched,
         ATD |-> stamps[1], ATA |-> stamps[1], ActualDuration |-> sched])

\* the scheduled and actual time fields of the output row
atl_times(stamps, duration) ==
    With(RSplit1First(duration, ":"), LAMBDA sched :
        [STD |-> stamps[1], STA |-> stamps[2], ScheduledDuration |-> sched,
         ATD |-> stamps[1], ATA |-> stamps[2], ActualDuration |-> sched])

\* the exception leaves the loop body
Aborted(p, l, r) == [ports |-> p, lines |-> l, res |-> r]

\* one pass of the loop body: [airports store, airlines store, result: the
\* output row]; the first call that fails ends it
transform(ports, portsfile, lines, linesfile, mfrrow) ==
    With(extract_code(mfrrow.From), LAMBDA origin :
    IF origin.k # "ok" THEN Aborted(ports, lines, Raised) ELSE
    With(extract_code(mfrrow.To), LAMBDA dest :
    IF dest.k # "ok" THEN Aborted(ports, lines, Raised) ELSE
    With(calculate_distance(ports, portsfile, mfrrow), LAMBDA dist :
    IF dist.res.k # "ok" THEN Aborted(dist.store, lines, dist.res) ELSE
    With(format_time(dist.store, portsfile, mfrrow), LAMBDA times :
    IF times.res.k # "ok" THEN Aborted(times.store, lines, times.res) ELSE
    With(extract_airline(lines, linesfile, mfrrow.FlightNumber), LAMBDA line :
    IF line.res.k # "ok" THEN Aborted(times.store, line.store, line.res) ELSE
    With(extract_aircraft(mfrrow.Aircraft), LAMBDA equip :
    IF equip.k # "ok" THEN Aborted(times.store, line.store, Raised) ELSE
    With(format_seat_type(mfrrow.SeatType), LAMBDA seat :
    IF seat.k # "ok" THEN Aborted(times.store, line.store, Raised) ELSE
    With(format_seat_class(mfrrow.FlightClass), LAMBDA class :
    IF class.k # "ok" THEN Aborted(times.store, line.store, Raised) ELSE
    With(extract_aircraft(mfrrow.Airline), LAMBDA oper :
    IF oper.k # "ok" THEN Aborted(times.store, line.store, Raised) ELSE
    [ports |-> times.store, lines |-> line.store,
     res |-> Ok(
        [FlightNumber |-> mfrrow.FlightNumber,
         OriginCode |-> origin.v,
         DestinationCode |-> dest.v,
         DistanceInKm |-> dist.res.v,
         AirlineCode |-> line.res.v[1],
         AirlineName |-> line.res.v[2],
         Registration |-> mfrrow.Registration,
         EquipmentName |-> equip.v[1],
         EquipmentCode |-> equip.v[2],
         ManufacturerCode |-> <<>>,
         ManufacturerName |-> <<>>,
         SeatNumber |-> mfrrow.SeatNumber,
         SeatTypeName |-> seat.v[1],
         SeatTypeCode |-> seat.v[2],
         FlightClassName |-> class.v[1],
         FlightClassCode |-> class.v[2],
         OperatingCarrierName |-> oper.v[1],
         OperatingCarrierCode |-> oper.v[2],
         IgnoreInStatistics |-> <<>>,
         Remark |-> mfrrow.Note]
        @@ atl_times(times.res.v, mfrrow.Duration))])))))))))

fieldnames ==
    <<"FlightNumber", "OriginCode", "DestinationCode", "DistanceInKm", "STD",
      "STA", "ScheduledDuration", "ATD", "ATA", "ActualDuration",
      "AirlineCode", "AirlineName", "Registration", "EquipmentCode",
      "EquipmentName", "ManufacturerCode", "ManufacturerName", "SeatNumber",
      "SeatTypeCode", "SeatTypeName", "FlightClassCode", "FlightClassName",
      "OperatingCarrierCode", "OperatingCarrierName", "IgnoreInStatistics",
      "Remark">>

\* a slip: the new row is put in front
loop_step_front(rows, res) ==
    IF res.k = "ok" THEN [atlrows |-> <<res.v>> \o rows, pc |-> "convert"]
    ELSE [atlrows |-> rows, pc |-> "exited"]

\* a slip: a row that fails is skipped and the loop goes on
loop_step_skip(rows, res) ==
    IF res.k = "ok" THEN [atlrows |-> Append(rows, res.v), pc |-> "convert"]
    ELSE [atlrows |-> rows, pc |-> "convert"]

\* the end of one pass: atlrows.append(atlrow), or the exception leaves
\* convert and ends the process
loop_step(rows, res) ==
    IF res.k = "ok" THEN [atlrows |-> Append(rows, res.v), pc |-> "convert"]
    ELSE [atlrows |-> rows, pc |-> "exited"]

----------------------------------------------------------------------------
(* Spec: one run of the program (__main__).                                *)

GoodRow ==
    [FlightNumber |-> <<"A", "B", "1">>,
     From |-> Composite(<<"X">>, <<"A">>, CodeHNL),
     To |-> Solo(<<"X">>, CodeLHR),
     Date |-> <<"0", "1", "/", "1", "5", "/", "2", "4">>,
     DepTime |-> <<"0", "8", ":", "0", "0", ":", "0", "0">>,
     ArrTime |-> <<"1", "0", ":", "3", "0", ":", "0", "0">>,
     Duration |-> <<"2", ":", "3", "0", ":", "0", "0">>,
     Registration |-> <<"N", "1">>,
     Aircraft |-> Solo(<<" ", "B", "7">>, <<"B", "7">>),
     SeatNumber |-> <<"1", "A">>,
     SeatType |-> <<"2">>,
     FlightClass |-> <<"4">>,
     Airline |-> Composite(<<"D">>, <<"A", "B">>, <<"A", "B", "A">>),
     Note |-> <<>>]

OtherGoodRow ==
    [GoodRow EXCEPT !.FlightNumber = <<"A", "A", "B", "B", "7">>,
                    !.From = Composite(<<"X", "/", "X">>, <<"D">>, CodeNRT),
                    !.To = Composite(<<"X">>, <<"A">>, CodeHNL),
                    !.Date = <<"1", "2", "/", "3", "1", "/", "9", "9">>,
                    !.DepTime = <<"2", "3", ":", "5", "9", ":", "3", "0">>,
                    !.Duration = <<"0", ":", "0", "0", ":", "3", "0">>,
                    !.ArrTime = <<"0", "7", ":", "4", "5">>,
                    !.SeatType = <<"0">>,
                    !.FlightClass = <<"1">>]

BadRows ==
    {[GoodRow EXCEPT !.From = Composite(<<"X">>, <<"A">>, CodeXX)],
     [GoodRow EXCEPT !.To = Solo(<<"X">>, CodeXX)],
     [GoodRow EXCEPT !.FlightNumber = <<"B", "B", "1">>],
     [GoodRow EXCEPT !.From = <<"X">>],
     [GoodRow EXCEPT !.To = <<"X", "(">>],
     [GoodRow EXCEPT !.Aircraft = <<"B", "7">>],
     [GoodRow EXCEPT !.Airline = <<"D", ")">>],
     [GoodRow EXCEPT !.SeatType = <<"4">>],
     [GoodRow EXCEPT !.FlightClass = <<"0">>]}

InputRows == {GoodRow, OtherGoodRow} \cup BadRows

Init ==
    /\ pc = "main"
    /\ infile \in {Missing} \cup
           {File(r) : r \in SeqsUpTo(InputRows, MaxInRows)}
    /\ airports_dat \in {Missing, RefAirports}
    /\ airlines_dat \in {Missing, RefAirlines}
    /\ AIRPORT_DATA = NoneStore
    /\ AIRLINE_DATA = NoneStore
    /\ idx = 0
    /\ atlrows = <<>>
    /\ outfile = NoOutput
    /\ status = "running"
    /\ arg = NoArg
    /\ ret = Raised
    /\ last = NoCall
    /\ ncalls = 0

Files == <<airports_dat, airlines_dat, infile>>

\* the process ends: sys.exit(1), an uncaught exception, or the end of main
Exit(how) == pc' = "exited" /\ status' = how

\* parse_args and the checks of the input file
MainArgs ==
    /\ pc = "main"
    /\ IF infile.exists THEN pc' = "airports.read" /\ UNCHANGED status
       ELSE Exit("sys.exit(1)")
    /\ UNCHANGED <<AIRPORT_DATA, AIRLINE_DATA, Files, idx, atlrows, outfile,
                   arg, ret, last, ncalls>>

MainAirportsRead ==
    /\ pc = "airports.read"
    /\ LET r == airports_read(airports_dat)
       IN  /\ AIRPORT_DATA' = r.store
           /\ IF r.res.k = "exit" THEN Exit("sys.exit(1)")
              ELSE pc' = "airlines.read" /\ UNCHANGED status
    /\ UNCHANGED <<AIRLINE_DATA, Files, idx, atlrows, outfile, arg, ret,
                   last, ncalls>>

MainAirlinesRead ==
    /\ pc = "airlines.read"
    /\ LET r == airlines_read(airlines_dat)
       IN  /\ AIRLINE_DATA' = r.store
           /\ IF r.res.k = "exit" THEN Exit("sys.exit(1)")
              ELSE pc' = "convert" /\ UNCHANGED status
    /\ UNCHANGED <<AIRPORT_DATA, Files, idx, atlrows, outfile, arg, ret,
                   last, ncalls>>

\* one pass of the loop of convert over the next row of the reader
ConvertRow ==
    /\ pc = "convert" /\ idx < Len(infile.rows)
    /\ \E t \in {transform(AIRPORT_DATA, airports_dat, AIRLINE_DATA,
                           airlines_dat, infile.rows[idx + 1])} :
       \E n \in {loop_step(atlrows, t.res)} :
           /\ AIRPORT_DATA' = t.ports
           /\ AIRLINE_DATA' = t.lines
           /\ atlrows' = n.atlrows
           /\ pc' = n.pc
           /\ status' = IF n.pc # "exited" THEN status
                        ELSE IF t.res.k = "exit" THEN "sys.exit(1)"
                        ELSE "exception"
    /\ idx' = idx + 1
    /\ UNCHANGED <<Files, outfile, arg, ret, last, ncalls>>

\* the reader is exhausted: open(outfile, 'w')
ConvertOpen ==
    /\ pc = "convert" /\ idx = Len(infile.rows)
    /\ outfile' = [opened |-> TRUE, header |-> FALSE, rows |-> <<>>]
    /\ pc' = "write"
    /\ UNCHANGED <<AIRPORT_DATA, AIRLINE_DATA, Files, idx, atlrows, status,
                   arg, ret, last, ncalls>>

\* writeheader, writerows, and the end of main
ConvertWrite ==
    /\ pc = "write"
    /\ outfile' = [opened |-> TRUE, header |-> TRUE, rows |-> atlrows]
    /\ Exit("finished")
    /\ UNCHANGED <<AIRPORT_DATA, AIRLINE_DATA, Files, idx, atlrows, arg, ret,
                   last, ncalls>>

Next ==
    MainArgs \/ MainAirportsRead \/ MainAirlinesRead \/ ConvertRow
        \/ ConvertOpen \/ ConvertWrite

Spec == Init /\ [][Next]_vars

ExitCode == IF status = "finished" THEN 0 ELSE 1

----------------------------------------------------------------------------
(* Properties of a run of the program.                                     *)

\* the transform of input row i on the stores as read() loads them
RowResult(i) ==
    transform(airports_read(airports_dat).store, airports_dat,
              airlines_read(airlines_dat).store, airlines_dat,
              infile.rows[i]).res

RefsExist == airports_dat.exists /\ airlines_dat.exists
FailingRows == {i \in 1..Len(infile.rows) : RowResult(i).k # "ok"}

\* C2: when airports.dat or airlines.dat is missing the run ends with a
\* nonzero exit status before convert starts: no row is transformed and the
\* output file is never opened.
C2_MissingReferenceFileExits ==
    ~RefsExist =>
        /\ pc \in {"main", "airports.read", "airlines.read", "exited"}
        /\ outfile = NoOutput /\ idx = 0 /\ atlrows = <<>>
        /\ pc = "exited" => status = "sys.exit(1)" /\ ExitCode # 0
        /\ pc # "exited" => ENABLED Next

\* the run ended at airlines.read, with airports.dat read and input rows
\* waiting
C2_Witness ==
    /\ pc = "exited" /\ status = "sys.exit(1)"
    /\ infile.exists /\ Len(infile.rows) > 0
    /\ airports_dat.exists /\ ~airlines_dat.exists
    /\ ~AIRPORT_DATA.none /\ AIRPORT_DATA.d # <<>>
    /\ outfile = NoOutput

\* C3: on a run in which every row transforms, the rows written are as many
\* as the input rows, and the i-th one is the transform of the i-th input row.
C3_RowsInInputOrder ==
    infile.exists /\ RefsExist /\ FailingRows = {} =>
        /\ \A i \in 1..Len(atlrows) : atlrows[i] = RowResult(i).v
        /\ pc = "exited" =>
             /\ status = "finished"
             /\ outfile.opened /\ outfile.header
             /\ Len(outfile.rows) = Len(infile.rows)
             /\ \A i \in 1..Len(infile.rows) :
                    outfile.rows[i] = RowResult(i).v

\* two different rows have been written
C3_Witness ==
    /\ pc = "exited" /\ status = "finished"
    /\ Len(outfile.rows) = 2
    /\ outfile.rows[1] # outfile.rows[2]
    /\ infile.rows[1] # infile.rows[2]

\* C7: in every output row ATD = STD, ATA = STA and ActualDuration =
\* ScheduledDuration, which is the row's Duration without its seconds
\* ("2:30:00" gives "2:30").
C7_ActualEqualsScheduled ==
    \A rows \in {atlrows, outfile.rows} :
        \A i \in 1..Len(rows) :
            /\ rows[i].ATD = rows[i].STD
            /\ rows[i].ATA = rows[i].STA
            /\ rows[i].ActualDuration = rows[i].ScheduledDuration
            /\ WithoutFinalField(infile.rows[i].Duration,
                                 rows[i].ScheduledDuration)
            /\ infile.rows[i].Duration = <<"2", ":", "3", "0", ":", "0", "0">>
                   => rows[i].ScheduledDuration = <<"2", ":", "3", "0">>

\* a written row of a 2:30:00 flight whose two stamps differ
C7_Witness ==
    /\ pc = "exited" /\ status = "finished"
    /\ \E i \in 1..Len(outfile.rows) :
         /\ outfile.rows[i].STD # outfile.rows[i].STA
         /\ outfile.rows[i].ATA = outfile.rows[i].STA
         /\ outfile.rows[i].ScheduledDuration = <<"2", ":", "3", "0">>

\* the failures C8 lists, told from the row and the reference files alone
NoParenCode(s) ==
    ~\E p, q \in 1..Len(s) : p < q /\ s[p] = "(" /\ s[q] = ")"
KnownAirports ==
    {airports_dat.rows[i].icao : i \in 1..Len(airports_dat.rows)}
KnownAirlines ==
    {airlines_dat.rows[i].icao : i \in 1..Len(airlines_dat.rows)} \cup
    ({airlines_dat.rows[i].iata : i \in 1..Len(airlines_dat.rows)}
         \ {<<>>})
ListedFailure(row) ==
    \/ \E f \in {row.From, row.To, row.Aircraft, row.Airline} :
           NoParenCode(f)
    \/ \E f \in {row.From, row.To} :
           extract_icao(f).k = "ok" /\ extract_icao(f).v \notin KnownAirports
    \/ airline_code(row.FlightNumber) \notin KnownAirlines
    \/ row.SeatType \notin {<<"0">>, <<"1">>, <<"2">>, <<"3">>}
    \/ row.FlightClass \notin {<<"1">>, <<"2">>, <<"3">>, <<"4">>, <<"5">>}

\* C8: a row with one of the listed faults fails to transform, and when the
\* transform of a row fails convert aborts at the first such row: the output
\* file is never opened, neither for the header nor for the rows transformed
\* before.
C8_FailingRowWritesNothing ==
    infile.exists /\ RefsExist =>
        /\ \A i \in 1..Len(infile.rows) :
               ListedFailure(infile.rows[i]) => i \in FailingRows
        /\ FailingRows # {} =>
             /\ outfile = NoOutput
             /\ idx <= Min(FailingRows)
             /\ pc \notin {"write"}
             /\ status # "finished"
             /\ idx = Min(FailingRows) =>
                    /\ pc = "exited" /\ status = "exception"
                    /\ Len(atlrows) = idx - 1

\* the second row failed after the first one was transformed
C8_Witness ==
    /\ pc = "exited" /\ status = "exception"
    /\ idx = 2 /\ Len(atlrows) = 1 /\ Len(infile.rows) = 2
    /\ ListedFailure(infile.rows[2])
    /\ outfile = NoOutput

====
